---- MODULE Spec2Model ----
(***************************************************************************)
(* A model of rc4.py: the RC4 engine (class RC4: ks, next, crypt) and the  *)
(* statistical testers built on it (RC4Tester, RC4RandomTest,              *)
(* RC4SwapTest).  Python lists are 0-based; sequences here are 1-based, so *)
(* the Python element l[k] is the element (k + 1) of the sequence.         *)
(***************************************************************************)
EXTENDS Integers, Sequences, FiniteSets, TLC

VARIABLES
    rc4,       \* the RC4 object: [key, n, s, i, j, swap]
    rc4_set,   \* FALSE while RC4Tester.rc4 is None
    op,        \* the last call made
    msg,       \* argument of the last crypt call
    out,       \* value returned by the last call (<<>> when it raised)
    err,       \* exception raised by the last call, or "none"
    at_draw,   \* the RC4 object when ks() returned inside the last crypt
               \* (the object itself after any other call)
    key_sz,    \* RC4Tester.ks
    sb_sz,     \* RC4Tester.sb_sz
    count,     \* argument of the last test call
    table,     \* list returned by the last test call
    trials,    \* the keys make_key drew during the last tester call
    runner_count,  \* TestRunner.count
    inp        \* the string input() returned in the last get_count call,
               \* as a sequence of characters

vars == <<rc4, rc4_set, op, msg, out, err, at_draw,
          key_sz, sb_sz, count, table, trials, runner_count, inp>>

----------------------------------------------------------------------------
(* Bounds of the model *)

MaxN == 3          \* largest small box size explored exhaustively
MaxKeyLen == 2     \* longest key handed to the engine
MaxLen == 2        \* longest message handed to crypt
MaxKeySz == 1      \* largest tester key size
MaxSb == 2         \* largest tester box size
MaxCount == 2      \* largest count handed to RC4RandomTest.test
MaxTrials == 1     \* largest count handed to RC4SwapTest.test
MaxInput == 2      \* longest string typed at the prompt of get_count

DefaultN == 256    \* default box size of RC4.__init__
DefaultCount == 100000   \* count set by TestRunner.__init__

KeyBytes == {1, 254}
MsgBytes == {1, 255}
Byte == 0 .. 255

RECURSIVE SeqsUpTo(_, _)
SeqsUpTo(S, len) ==
    IF len = 0 THEN {<<>>}
    ELSE LET shorter == SeqsUpTo(S, len - 1)
         IN shorter \cup {Append(q, x) : q \in {r \in shorter : Len(r) = len - 1}, x \in S}

Keys == SeqsUpTo(KeyBytes, MaxKeyLen)
Msgs == SeqsUpTo(MsgBytes, MaxLen)
BoxSizes == (-1) .. MaxN
Counts == 0 .. MaxCount
Trials == 0 .. MaxTrials
InputChars == {"0", "1", "7", "-", "x"}
Inputs == SeqsUpTo(InputChars, MaxInput)
KeySizes == 0 .. MaxKeySz
TesterBoxSizes == 0 .. MaxSb
\* keys and box sizes around the byte range, for the cipher of Cipher.run
BigKeys == {<<1>>, <<35>>, <<122>>, <<5, 0>>, <<4, 106>>, <<75, 101, 121>>}
BigBoxSizes == {DefaultN - 1, DefaultN, DefaultN + 1}

----------------------------------------------------------------------------
(* Python arithmetic and list primitives *)

\* a % n of Python: the result has the sign of n (n # 0)
PyMod(a, n) ==
    IF n > 0 THEN a % n
    ELSE LET r == (-a) % (-n) IN -r

\* list(range(0, n))
list_range(n) == IF n <= 0 THEN <<>> ELSE SubSeq([x \in 1 .. n |-> x - 1], 1, n)

\* [0] * n
zeros(n) == IF n <= 0 THEN <<>> ELSE SubSeq([x \in 1 .. n |-> 0], 1, n)

\* l[idx] is defined iff -len(l) <= idx < len(l)
InRange(l, idx) == (-Len(l)) <= idx /\ idx < Len(l)

\* position (1-based) of the Python index idx in l
Pos(l, idx) == IF idx < 0 THEN Len(l) + idx + 1 ELSE idx + 1

\* a ^ b on non-negative integers
RECURSIVE xor(_, _)
xor(a, b) ==
    IF a = 0 THEN b
    ELSE IF b = 0 THEN a
    ELSE (((a % 2) + (b % 2)) % 2) + 2 * xor(a \div 2, b \div 2)

----------------------------------------------------------------------------
(* class RC4 *)

\* RC4.__init__
RC4(k, n) == [key |-> k, n |-> n, s |-> <<>>, i |-> 0, j |-> 0, swap |-> <<>>]

\* ks_step with the swap replaced by a plain assignment to s[i]
ks_step_overwrite(e, l, j, i) ==
    LET tmp == e.key[(i % l) + 1]
        j2 == (j + e.s[i + 1] + tmp) % e.n
        s2 == [e.s EXCEPT ![i + 1] = e.s[j2 + 1]]
    IN [e |-> [e EXCEPT !.s = s2, !.swap = [@ EXCEPT ![i + 1] = s2[i + 1]]],
        j |-> j2]

\* ks_step recording s[i] before the swap instead of after it
ks_step_early(e, l, j, i) ==
    LET tmp == e.key[(i % l) + 1]
        j2 == (j + e.s[i + 1] + tmp) % e.n
        s2 == [e.s EXCEPT ![i + 1] = e.s[j2 + 1], ![j2 + 1] = e.s[i + 1]]
    IN [e |-> [e EXCEPT !.s = s2, !.swap = [@ EXCEPT ![i + 1] = e.s[i + 1]]],
        j |-> j2]

\* one iteration of the loop of ks: the object and the running j after it
ks_step(e, l, j, i) ==
    LET tmp == e.key[(i % l) + 1]
        j2 == (j + e.s[i + 1] + tmp) % e.n
        s2 == [e.s EXCEPT ![i + 1] = e.s[j2 + 1], ![j2 + 1] = e.s[i + 1]]
    IN [e |-> [e EXCEPT !.s = s2, !.swap = [@ EXCEPT ![i + 1] = s2[i + 1]]],
        j |-> j2]

\* iterations i .. stop-1 of the loop of ks, in order: the object and the
\* running j after them.  The range is split in two, and the first half is
\* evaluated (its j, a residue, is compared with 0) before the second half
\* starts, to bound the depth of the evaluation.
RECURSIVE ks_loop(_, _, _, _, _)
ks_loop(e, l, j, i, stop) ==
    IF i >= stop THEN [e |-> e, j |-> j]
    ELSE IF stop = i + 1 THEN ks_step(e, l, j, i)
    ELSE LET mid == i + ((stop - i) \div 2)
             r == ks_loop(e, l, j, i, mid)
         IN IF r.j >= 0 THEN ks_loop(r.e, l, r.j, mid, stop) ELSE r

\* ks_reset keeping the s of an object that was scheduled before
ks_reset_keep(e) ==
    IF e.s = <<>> THEN [e EXCEPT !.s = list_range(e.n), !.swap = zeros(e.n)]
    ELSE [e EXCEPT !.swap = zeros(e.n)]

\* the object once s and swap are reset, before the loop
ks_reset(e) == [e EXCEPT !.s = list_range(e.n), !.swap = zeros(e.n)]

\* RC4.ks
ks(e) ==
    LET e0 == ks_reset(e)
        l == Len(e.key)
    IN IF e.n >= 1 /\ l = 0
       THEN [e |-> e0, err |-> "ZeroDivisionError"]
       ELSE [e |-> ks_loop(e0, l, 0, 0, e.n).e, err |-> "none"]

\* next returning the index k instead of s[k]
next_ret_index(e) ==
    IF e.n = 0 THEN [e |-> e, ret |-> 0, err |-> "ZeroDivisionError"]
    ELSE LET i2 == PyMod(e.i + 1, e.n)
             e1 == [e EXCEPT !.i = i2]
         IN IF ~InRange(e.s, i2)
            THEN [e |-> e1, ret |-> 0, err |-> "IndexError"]
            ELSE LET tmp == e.s[Pos(e.s, i2)]
                     j2 == PyMod(e.j + tmp, e.n)
                     e2 == [e1 EXCEPT !.j = j2]
                 IN IF ~InRange(e.s, j2)
                    THEN [e |-> e2, ret |-> 0, err |-> "IndexError"]
                    ELSE LET pi == Pos(e.s, i2)
                             pj == Pos(e.s, j2)
                             s2 == [e.s EXCEPT ![pi] = e.s[pj], ![pj] = e.s[pi]]
                             e3 == [e2 EXCEPT !.s = s2]
                             k == PyMod(s2[pi] + s2[pj], e.n)
                         IN IF ~InRange(s2, k)
                            THEN [e |-> e3, ret |-> 0, err |-> "IndexError"]
                            ELSE [e |-> e3, ret |-> k, err |-> "none"]

\* next recording s[i] in swap, as the loop of ks does
next_record(e) ==
    IF e.n = 0 THEN [e |-> e, ret |-> 0, err |-> "ZeroDivisionError"]
    ELSE LET i2 == PyMod(e.i + 1, e.n)
             e1 == [e EXCEPT !.i = i2]
         IN IF ~InRange(e.s, i2)
            THEN [e |-> e1, ret |-> 0, err |-> "IndexError"]
            ELSE LET tmp == e.s[Pos(e.s, i2)]
                     j2 == PyMod(e.j + tmp, e.n)
                     e2 == [e1 EXCEPT !.j = j2]
                 IN IF ~InRange(e.s, j2)
                    THEN [e |-> e2, ret |-> 0, err |-> "IndexError"]
                    ELSE LET pi == Pos(e.s, i2)
                             pj == Pos(e.s, j2)
                             s2 == [e.s EXCEPT ![pi] = e.s[pj], ![pj] = e.s[pi]]
                             e3 == [e2 EXCEPT !.s = s2, !.swap = [@ EXCEPT ![pi] = s2[pi]]]
                             k == PyMod(s2[pi] + s2[pj], e.n)
                         IN IF ~InRange(s2, k)
                            THEN [e |-> e3, ret |-> 0, err |-> "IndexError"]
                            ELSE [e |-> e3, ret |-> s2[Pos(s2, k)], err |-> "none"]

\* RC4.next
next(e) ==
    IF e.n = 0 THEN [e |-> e, ret |-> 0, err |-> "ZeroDivisionError"]
    ELSE LET i2 == PyMod(e.i + 1, e.n)
             e1 == [e EXCEPT !.i = i2]
         IN IF ~InRange(e.s, i2)
            THEN [e |-> e1, ret |-> 0, err |-> "IndexError"]
            ELSE LET tmp == e.s[Pos(e.s, i2)]
                     j2 == PyMod(e.j + tmp, e.n)
                     e2 == [e1 EXCEPT !.j = j2]
                 IN IF ~InRange(e.s, j2)
                    THEN [e |-> e2, ret |-> 0, err |-> "IndexError"]
                    ELSE LET pi == Pos(e.s, i2)
                             pj == Pos(e.s, j2)
                             s2 == [e.s EXCEPT ![pi] = e.s[pj], ![pj] = e.s[pi]]
                             e3 == [e2 EXCEPT !.s = s2]
                             k == PyMod(s2[pi] + s2[pj], e.n)
                         IN IF ~InRange(s2, k)
                            THEN [e |-> e3, ret |-> 0, err |-> "IndexError"]
                            ELSE [e |-> e3, ret |-> s2[Pos(s2, k)], err |-> "none"]

\* crypt_byte adding modulo 256 instead of xoring
crypt_byte_addmod(m, k) == (m + k) % 256

\* crypt_byte adding instead of xoring
crypt_byte_add(m, k) == m + k

\* c = m ^ self.next()
crypt_byte(m, k) == xor(m, k)

\* the loop of crypt from message index idx on
RECURSIVE crypt_loop(_, _, _, _)
crypt_loop(e, m, o, idx) ==
    IF idx >= Len(m) THEN [e |-> e, out |-> o, err |-> "none"]
    ELSE LET r == next(e)
         IN IF r.err # "none"
            THEN [e |-> r.e, out |-> <<>>, err |-> r.err]
            ELSE crypt_loop(r.e, m, [o EXCEPT ![idx + 1] = crypt_byte(m[idx + 1], r.ret)],
                            idx + 1)

\* crypt allocating one output element too many
crypt_extra(e, m) ==
    LET k == ks(e)
    IN IF k.err # "none"
       THEN [e |-> k.e, out |-> <<>>, err |-> k.err, at_draw |-> k.e]
       ELSE LET r == crypt_loop(k.e, m, zeros(Len(m) + 1), 0)
            IN [e |-> r.e, out |-> r.out, err |-> r.err, at_draw |-> k.e]

\* RC4.crypt; at_draw is the object when ks() has returned
crypt(e, m) ==
    LET k == ks(e)
    IN IF k.err # "none"
       THEN [e |-> k.e, out |-> <<>>, err |-> k.err, at_draw |-> k.e]
       ELSE LET r == crypt_loop(k.e, m, zeros(Len(m)), 0)
            IN [e |-> r.e, out |-> r.out, err |-> r.err, at_draw |-> k.e]

----------------------------------------------------------------------------
(* The engine used as a library: one RC4 object, calls in any order *)

NoTester == /\ rc4_set = TRUE
            /\ key_sz = 0 /\ sb_sz = 0 /\ count = 0
            /\ table = <<>> /\ trials = <<>>

NoRunner == runner_count = 0 /\ inp = <<>>

Init ==
    /\ \E k \in Keys, n \in BoxSizes : rc4 = RC4(k, n)
    /\ op = "new" /\ msg = <<>> /\ out = <<>> /\ err = "none"
    /\ at_draw = rc4
    /\ NoTester
    /\ NoRunner

CallKs ==
    LET r == ks(rc4)
    IN /\ rc4' = r.e
       /\ op' = "ks" /\ msg' = <<>> /\ out' = <<>> /\ err' = r.err
       /\ at_draw' = r.e
       /\ UNCHANGED <<rc4_set, key_sz, sb_sz, count, table, trials, runner_count, inp>>

CallNext ==
    LET r == next(rc4)
    IN /\ rc4' = r.e
       /\ op' = "next" /\ msg' = <<>>
       /\ out' = IF r.err = "none" THEN <<r.ret>> ELSE <<>>
       /\ err' = r.err
       /\ at_draw' = r.e
       /\ UNCHANGED <<rc4_set, key_sz, sb_sz, count, table, trials, runner_count, inp>>

CallCrypt(m) ==
    LET r == crypt(rc4, m)
    IN /\ rc4' = r.e
       /\ op' = "crypt" /\ msg' = m /\ out' = r.out /\ err' = r.err
       /\ at_draw' = r.at_draw
       /\ UNCHANGED <<rc4_set, key_sz, sb_sz, count, table, trials, runner_count, inp>>

Next ==
    \/ CallKs
    \/ CallNext
    \/ \E m \in Msgs : CallCrypt(m)

Spec == Init /\ [][Next]_vars

----------------------------------------------------------------------------
(* class RC4Tester and its subclasses *)

\* RC4Tester.make_key: the keys it can return
make_key(ksz) == IF ksz <= 0 THEN {<<>>} ELSE [1 .. ksz -> 0 .. ksz]

\* RC4Tester.initRC4, k being the key make_key returned
initRC4(k, sb) == ks(RC4(k, sb))

\* the loop of RC4RandomTest.test from iteration i on
RECURSIVE random_loop(_, _, _, _)
random_loop(e, values, i, cnt) ==
    IF i >= cnt THEN [e |-> e, table |-> values, err |-> "none"]
    ELSE LET r == next(e)
         IN IF r.err # "none"
            THEN [e |-> r.e, table |-> <<>>, err |-> r.err]
            ELSE random_loop(r.e, [values EXCEPT ![r.ret + 1] = @ + 1], i + 1, cnt)

\* random_test scheduling the key again before it draws
random_test_reschedule(e, cnt) == random_loop(ks(e).e, zeros(Len(e.s)), 0, cnt)

\* RC4RandomTest.test
random_test(e, cnt) == random_loop(e, zeros(Len(e.s)), 0, cnt)

\* count_unchanged without the comparison
count_unchanged_always(unchanged, e, sb) ==
    [x \in DOMAIN unchanged |-> unchanged[x] + 1]

\* count_unchanged stopping one position early
count_unchanged_skip_last(unchanged, e, sb) ==
    [x \in DOMAIN unchanged |->
        IF x < sb /\ e.s[x] = e.swap[x] THEN unchanged[x] + 1 ELSE unchanged[x]]

\* the inner loop of RC4SwapTest.test
count_unchanged(unchanged, e, sb) ==
    [x \in DOMAIN unchanged |->
        IF e.s[x] = e.swap[x] THEN unchanged[x] + 1 ELSE unchanged[x]]

\* the outer loop of RC4SwapTest.test from trial t on; ks lists the keys
\* that make_key returns, drawn the number of initRC4 calls made
RECURSIVE swap_loop(_, _, _, _, _)
swap_loop(e, unchanged, kseq, t, sb) ==
    IF t >= Len(kseq)
    THEN [e |-> e, table |-> unchanged, err |-> "none", drawn |-> t]
    ELSE LET r == initRC4(kseq[t + 1], sb)
         IN IF r.err # "none"
            THEN [e |-> r.e, table |-> <<>>, err |-> r.err, drawn |-> t + 1]
            ELSE swap_loop(r.e, count_unchanged(unchanged, r.e, sb), kseq, t + 1, sb)

\* RC4SwapTest.test
swap_test(e, kseq, sb) == swap_loop(e, zeros(sb), kseq, 0, sb)

----------------------------------------------------------------------------
(* A tester object: initRC4 and the two tests, in any order *)

NoCrypt == msg = <<>> /\ out = <<>>

InitTester ==
    /\ key_sz \in KeySizes /\ sb_sz \in TesterBoxSizes
    /\ rc4 = RC4(<<>>, 0) /\ rc4_set = FALSE
    /\ op = "new" /\ err = "none"
    /\ at_draw = rc4
    /\ count = 0 /\ table = <<>> /\ trials = <<>>
    /\ NoCrypt
    /\ NoRunner

CallInitRC4 ==
    \E k \in make_key(key_sz) :
        LET r == initRC4(k, sb_sz)
        IN /\ rc4' = r.e /\ rc4_set' = TRUE
           /\ op' = "initRC4" /\ err' = r.err
           /\ at_draw' = r.e
           /\ count' = 0 /\ table' = <<>> /\ trials' = <<k>>
           /\ UNCHANGED <<msg, out, key_sz, sb_sz, runner_count, inp>>

CallRandomTest(c) ==
    /\ op' = "random_test" /\ count' = c /\ trials' = <<>>
    /\ IF ~rc4_set
       THEN /\ err' = "AttributeError" /\ table' = <<>>
            /\ rc4' = rc4 /\ at_draw' = rc4
       ELSE LET r == random_test(rc4, c)
            IN /\ err' = r.err /\ table' = r.table
               /\ rc4' = r.e /\ at_draw' = r.e
    /\ UNCHANGED <<rc4_set, msg, out, key_sz, sb_sz, runner_count, inp>>

CallSwapTest(c) ==
    \E kseq \in [1 .. c -> make_key(key_sz)] :
        LET r == swap_test(rc4, kseq, sb_sz)
        IN /\ op' = "swap_test" /\ count' = c
           /\ trials' = SubSeq(kseq, 1, r.drawn)
                  /\ err' = r.err /\ table' = r.table
           /\ rc4' = r.e /\ at_draw' = r.e
           /\ rc4_set' = (rc4_set \/ r.drawn >= 1)
           /\ UNCHANGED <<msg, out, key_sz, sb_sz, runner_count, inp>>

NextTester ==
    \/ CallInitRC4
    \/ \E c \in Counts : CallRandomTest(c)
    \/ \E c \in Trials : CallSwapTest(c)

TesterSpec == InitTester /\ [][NextTester]_vars

----------------------------------------------------------------------------
(* The cipher on box sizes around the byte range: one crypt call on a     *)
(* newly constructed object                                               *)

InitBig ==
    /\ \E k \in BigKeys, n \in BigBoxSizes : rc4 = RC4(k, n)
    /\ op = "new" /\ msg = <<>> /\ out = <<>> /\ err = "none"
    /\ at_draw = rc4
    /\ NoTester
    /\ NoRunner

NextBig == \E m \in Msgs : op = "new" /\ CallCrypt(m)

BigSpec == InitBig /\ [][NextBig]_vars

----------------------------------------------------------------------------
(* class TestRunner: the count and its prompt *)

\* the value of a decimal digit
DigitVal(c) ==
    CASE c = "0" -> 0 [] c = "1" -> 1 [] c = "2" -> 2 [] c = "3" -> 3
      [] c = "4" -> 4 [] c = "5" -> 5 [] c = "6" -> 6 [] c = "7" -> 7
      [] c = "8" -> 8 [] c = "9" -> 9

Digits == {"0", "1", "2", "3", "4", "5", "6", "7", "8", "9"}

\* check_int accepting a leading zero
check_int_any_digit(s) ==
    /\ Len(s) >= 1
    /\ \A x \in 1 .. Len(s) : s[x] \in Digits

\* TestRunner.check_int: re.match('^[1-9]\d*$', s) != None
check_int(s) ==
    /\ Len(s) >= 1
    /\ s[1] \in Digits \ {"0"}
    /\ \A x \in 2 .. Len(s) : s[x] \in Digits

\* int(s) on a string of decimal digits
RECURSIVE py_int(_)
py_int(s) ==
    IF s = <<>> THEN 0
    ELSE 10 * py_int(SubSeq(s, 1, Len(s) - 1)) + DigitVal(s[Len(s)])

\* TestRunner.get_count: the count after the call, c being the count before
\* it and s the string typed
get_count(c, s) == IF check_int(s) THEN py_int(s) ELSE c

InitRunner ==
    /\ runner_count = DefaultCount /\ inp = <<>>
    /\ op = "new" /\ err = "none"
    /\ rc4 = RC4(<<>>, 0) /\ rc4_set = FALSE /\ at_draw = rc4
    /\ key_sz = 0 /\ sb_sz = 0 /\ count = 0
    /\ table = <<>> /\ trials = <<>>
    /\ NoCrypt

CallGetCount ==
    \E s \in Inputs :
        /\ runner_count' = get_count(runner_count, s)
        /\ inp' = s
        /\ op' = "get_count" /\ err' = "none"
        /\ UNCHANGED <<rc4, rc4_set, msg, out, at_draw,
                       key_sz, sb_sz, count, table, trials>>

NextRunner == CallGetCount

RunnerSpec == InitRunner /\ [][NextRunner]_vars

----------------------------------------------------------------------------
(* Properties *)

\* the key is not empty and the box size is positive
Valid == rc4.n >= 1 /\ rc4.key # <<>>

\* l is a permutation of 0 .. n-1
IsPermutation(l, n) ==
    /\ Len(l) = n
    /\ \A v \in 0 .. (n - 1) : \E x \in 1 .. n : l[x] = v
    /\ \A x, y \in 1 .. n : l[x] = l[y] => x = y

RECURSIVE SumSeq(_)
SumSeq(l) == IF l = <<>> THEN 0 ELSE Head(l) + SumSeq(Tail(l))

\* the object after c successive next() calls
RECURSIVE draws(_, _)
draws(e, c) == IF c = 0 THEN e ELSE draws(next(e).e, c - 1)

\* the values c successive next() calls return
RECURSIVE keystream(_, _)
keystream(e, c) ==
    IF c = 0 THEN <<>> ELSE <<next(e).ret>> \o keystream(next(e).e, c - 1)

\* C1: crypt on a newly constructed object, followed by crypt of the result
\* on another newly constructed object with the same key and box size,
\* gives the message back.
C1_Involution ==
    [][(op = "new" /\ op' = "crypt" /\ Valid)
        => /\ err' = "none"
           /\ crypt(RC4(rc4.key, rc4.n), out').out = msg']_vars

C1_Witness ==
    /\ op = "crypt" /\ err = "none" /\ Valid
    /\ at_draw.i = 0 /\ at_draw.j = 0
    /\ Len(msg) = MaxLen /\ out # msg
    /\ crypt(RC4(rc4.key, rc4.n), out).out = msg

\* C2: in every crypt call, when the first keystream byte is drawn the
\* pointers are i = 0 and j = 0 and s is the newly scheduled permutation.
C2_FreshSchedule ==
    (op = "crypt" /\ Valid /\ Len(msg) >= 1)
        => /\ at_draw.i = 0 /\ at_draw.j = 0
           /\ at_draw.s = ks(RC4(rc4.key, rc4.n)).e.s

\* C3: once ks has completed (s is [] until then), after every call s is a
\* permutation of 0 .. n-1 and i and j are in 0 .. n-1.
C3_Permutation ==
    (Valid /\ rc4.s # <<>>)
        => /\ IsPermutation(rc4.s, rc4.n)
           /\ rc4.i \in 0 .. (rc4.n - 1)
           /\ rc4.j \in 0 .. (rc4.n - 1)

C3_Witness ==
    /\ op = "next" /\ err = "none" /\ Valid
    /\ rc4.n = MaxN /\ rc4.i # 0 /\ rc4.j # 0
    /\ rc4.s # list_range(rc4.n)
    /\ IsPermutation(rc4.s, rc4.n)

\* C4: when ks completes, swap has n entries and swap[k] is the value s[k]
\* held right after iteration k of the scheduling that starts from the
\* identity with j = 0.
C4_Snapshot ==
    (op \in {"ks", "crypt"} /\ Valid)
        => /\ Len(rc4.swap) = rc4.n
           /\ \A k \in 0 .. (rc4.n - 1) :
                rc4.swap[k + 1] =
                    ks_loop(ks_reset(RC4(rc4.key, rc4.n)), Len(rc4.key), 0, 0, k + 1).e.s[k + 1]

C4_Witness ==
    /\ op = "ks" /\ err = "none" /\ Valid
    /\ rc4.n = MaxN /\ Len(rc4.key) = MaxKeyLen
    /\ Len(rc4.swap) = rc4.n
    /\ rc4.swap # rc4.s

\* C5: ks or crypt on an object whose key is empty (n >= 1) raises, leaves
\* s, swap, i and j as they were, and returns nothing.
C5_InvalidKey ==
    [][(rc4.key = <<>> /\ rc4.n >= 1 /\ op' \in {"ks", "crypt"})
        => /\ err' # "none"
           /\ rc4' = rc4
           /\ out' = <<>>]_vars

\* C6: ks, next and crypt are only ever called on an object whose box size
\* is positive, as construction with n <= 0 fails.
C6_InvalidBoxSize ==
    op \in {"ks", "next", "crypt"} => rc4.n >= 1

\* C7: every crypt call returns what a crypt call with the same key, box
\* size and message returns on a separate, newly constructed object.
C7_Determinism ==
    (op = "crypt" /\ Valid)
        => /\ err = "none"
           /\ out = crypt(RC4(rc4.key, rc4.n), msg).out

\* C8 as claimed: for every positive box size, every element crypt returns
\* is in 0 .. 255.
C8_ByteOutput ==
    (op = "crypt" /\ Valid)
        => \A x \in DOMAIN out : out[x] \in Byte

\* C8: for every box size from 1 to 256, every element crypt returns for a
\* message of bytes is in 0 .. 255.
C8_ByteOutputUpTo256 ==
    (op = "crypt" /\ Valid /\ rc4.n <= DefaultN)
        => /\ err = "none" /\ Len(out) = Len(msg)
           /\ \A x \in DOMAIN out : out[x] \in Byte

C8_Witness ==
    /\ op = "crypt" /\ err = "none" /\ Valid
    /\ rc4.n = DefaultN /\ Len(out) = MaxLen
    /\ \E x \in DOMAIN out : out[x] > 128 /\ out[x] # msg[x]
    /\ \A x \in DOMAIN out : out[x] \in Byte

\* C9: once initRC4 has run, RC4RandomTest.test(count) draws count keystream
\* bytes from the object as it stands, without scheduling the key again, and
\* returns n counts, table[v] being the number of draws that gave v, whose sum
\* is count.
C9_RandomTest ==
    [][(op' = "random_test" /\ rc4_set /\ Valid)
        => /\ err' = "none"
           /\ Len(table') = sb_sz
           /\ \A x \in 1 .. sb_sz :
                /\ table'[x] >= 0
                /\ table'[x] = Cardinality({t \in 1 .. count' :
                                    keystream(rc4, count')[t] = x - 1})
           /\ SumSeq(table') = count'
           /\ rc4' = draws(rc4, count')]_vars

C9_Witness ==
    /\ op = "random_test" /\ err = "none" /\ rc4_set /\ Valid
    /\ count = MaxCount /\ sb_sz = MaxSb
    /\ SumSeq(table) = MaxCount
    /\ rc4.i = MaxCount % sb_sz
    /\ rc4.s # ks(RC4(rc4.key, rc4.n)).e.s

\* C10: RC4SwapTest.test(count) schedules one newly drawn key per trial and
\* returns n entries, table[idx] being the number of trials whose scheduled
\* s[idx] equals swap[idx], so 0 <= table[idx] <= count.
C10_SwapTest ==
    (op = "swap_test" /\ key_sz >= 1 /\ sb_sz >= 1)
        => /\ err = "none"
           /\ Len(trials) = count
           /\ Len(table) = sb_sz
           /\ \A x \in 1 .. sb_sz :
                /\ table[x] \in 0 .. count
                /\ table[x] = Cardinality({t \in 1 .. count :
                        LET e == ks(RC4(trials[t], sb_sz)).e
                        IN e.s[x] = e.swap[x]})

C10_Witness ==
    /\ op = "swap_test" /\ err = "none" /\ key_sz >= 1
    /\ count = MaxTrials /\ sb_sz = MaxSb /\ Len(trials) = count
    /\ \E x \in 1 .. sb_sz : table[x] = count
    /\ \E x \in 1 .. sb_sz : table[x] < count

\* C11: crypt returns a sequence as long as the message, the empty sequence
\* for the empty message.
C11_OutputLength ==
    (op = "crypt" /\ Valid)
        => /\ err = "none"
           /\ Len(out) = Len(msg)
           /\ (msg = <<>> => out = <<>>)

C11_Witness ==
    /\ op = "crypt" /\ err = "none" /\ Valid
    /\ msg = <<>> /\ out = <<>>
    /\ rc4.n = MaxN /\ rc4.s # <<>>

\* C15: after ks the last position holds what the snapshot recorded for it,
\* so RC4SwapTest.test(count) returns table[n-1] = count.
C15_LastPersists ==
    /\ (op = "swap_test" /\ key_sz >= 1 /\ sb_sz >= 1)
        => (err = "none" /\ table[sb_sz] = count)
    /\ ((op = "initRC4" \/ (op = "swap_test" /\ count >= 1)) /\ Valid)
        => rc4.s[rc4.n] = rc4.swap[rc4.n]

C15_Witness ==
    /\ op = "swap_test" /\ err = "none" /\ key_sz >= 1
    /\ count >= 1 /\ sb_sz >= 2
    /\ table[sb_sz] = count
    /\ table[1] = 0
    /\ rc4.s[rc4.n] = rc4.swap[rc4.n] /\ rc4.s[1] # rc4.swap[1]

\* C16: every ks call, whatever calls came before it and whatever i and j
\* are, ends with the s and the swap of the first ks call on a newly
\* constructed object with the same key and box size.
C16_HistoryIndependent ==
    (op \in {"ks", "crypt"} /\ Valid)
        => /\ at_draw.s = ks(RC4(rc4.key, rc4.n)).e.s
           /\ at_draw.swap = ks(RC4(rc4.key, rc4.n)).e.swap
           /\ (op = "ks" => rc4 = at_draw)

C16_Witness ==
    /\ op = "ks" /\ err = "none" /\ Valid
    /\ rc4.n = MaxN /\ rc4.i # 0 /\ rc4.j # 0
    /\ rc4.s = ks(RC4(rc4.key, rc4.n)).e.s
    /\ rc4.s # list_range(rc4.n)

\* the reference generator: one step from s, i, j with box size n
ref_step(s, i, j, n) ==
    LET i2 == (i + 1) % n
        j2 == (j + s[i2 + 1]) % n
        s2 == [s EXCEPT ![i2 + 1] = s[j2 + 1], ![j2 + 1] = s[i2 + 1]]
    IN [s |-> s2, i |-> i2, j |-> j2,
        byte |-> s2[((s2[i2 + 1] + s2[j2 + 1]) % n) + 1]]

\* the first c bytes of the reference generator
RECURSIVE ref_stream(_, _, _, _, _)
ref_stream(s, i, j, n, c) ==
    IF c = 0 THEN <<>>
    ELSE LET r == ref_step(s, i, j, n)
         IN <<r.byte>> \o ref_stream(r.s, r.i, r.j, n, c - 1)

\* C13: ks on a newly constructed object leaves i = j = 0, every next() on a
\* scheduled object does one step of the reference generator and returns its
\* byte, which is in [0, n), and crypt on a newly constructed object returns
\* message[idx] XOR the (idx+1)-th reference byte.
C13_Keystream ==
    [][Valid =>
        /\ (op = "new" /\ op' = "ks") => (rc4'.i = 0 /\ rc4'.j = 0)
        /\ (op' = "next" /\ rc4.s # <<>>) =>
              LET r == ref_step(rc4.s, rc4.i, rc4.j, rc4.n)
              IN /\ err' = "none"
                 /\ out' = <<r.byte>>
                 /\ r.byte \in 0 .. (rc4.n - 1)
                 /\ rc4'.s = r.s /\ rc4'.i = r.i /\ rc4'.j = r.j
        /\ (op = "new" /\ op' = "crypt") =>
              LET stream == ref_stream(ks(RC4(rc4.key, rc4.n)).e.s, 0, 0, rc4.n, Len(msg'))
              IN /\ Len(out') = Len(msg')
                 /\ \A x \in 1 .. Len(msg') : out'[x] = xor(msg'[x], stream[x])]_vars

C13_Witness ==
    /\ op = "next" /\ err = "none" /\ Valid
    /\ rc4.n = MaxN /\ rc4.i = 2
    /\ out = <<ref_stream(ks(RC4(rc4.key, rc4.n)).e.s, 0, 0, rc4.n, 2)[2]>>
    /\ out[1] \in 0 .. (rc4.n - 1)

\* C14: no call changes the key or the box size, and next() leaves swap as
\* it was, so on a scheduled object swap stays what the scheduling captured.
C14_Frame ==
    [][/\ rc4'.key = rc4.key /\ rc4'.n = rc4.n
       /\ op' = "next" => rc4'.swap = rc4.swap
       /\ (op' = "next" /\ Valid /\ rc4.s # <<>>)
            => rc4'.swap = ks(RC4(rc4.key, rc4.n)).e.swap]_vars

C14_Witness ==
    /\ op = "next" /\ err = "none" /\ Valid
    /\ rc4.n = MaxN /\ Len(rc4.key) = MaxKeyLen
    /\ rc4.swap = ks(RC4(rc4.key, rc4.n)).e.swap
    /\ rc4.swap # zeros(rc4.n)
    /\ rc4.s # ks(RC4(rc4.key, rc4.n)).e.s

\* s is not a positive integer: empty, with a character that is not a
\* digit (a sign, a letter), or zero
NotPositiveInteger(s) ==
    \/ s = <<>>
    \/ \E x \in 1 .. Len(s) : s[x] \notin Digits
    \/ py_int(s) = 0

\* C12 as claimed: after every get_count call whose input is not a positive
\* integer the count is the default 100000, and the count is positive.
C12_Fallback ==
    op = "get_count"
        => /\ err = "none"
           /\ runner_count >= 1
           /\ NotPositiveInteger(inp) => runner_count = DefaultCount

\* C12: a get_count call whose input is not a positive integer raises
\* nothing and leaves the count as it was, which is the default 100000 on
\* the first call; the count is positive after every call.
C12_KeepsCount ==
    [][op' = "get_count"
        => /\ err' = "none"
           /\ runner_count' >= 1
           /\ NotPositiveInteger(inp') => runner_count' = runner_count
           /\ (op = "new" /\ NotPositiveInteger(inp'))
                => runner_count' = DefaultCount]_vars

C12_Witness ==
    /\ op = "get_count" /\ err = "none"
    /\ NotPositiveInteger(inp) /\ inp # <<>>
    /\ runner_count >= 1 /\ runner_count # DefaultCount

====
